---- MODULE Spec2Model ----
(***************************************************************************)
(* Model of scripts/validate_workflow.py: WorkflowValidator, the validator *)
(* of Dify workflow DSL documents.  A validator instance holds two         *)
(* accumulators (errors, warnings); validate() resets them, loads the      *)
(* document and runs the top-level, app and workflow checks over the       *)
(* generic tree yaml.safe_load produced.                                   *)
(***************************************************************************)
EXTENDS Integers, Sequences, FiniteSets, TLC

(***************************************************************************)
(* Python values as yaml.safe_load builds them: None, str, int, list and   *)
(* dict.  A dict keeps its insertion order, so it is a sequence of         *)
(* <<key, value>> pairs with distinct keys.                                *)
(***************************************************************************)
Null == [k |-> "null"]
Str(s) == [k |-> "str", v |-> s]
Num(n) == [k |-> "int", v |-> n]
List(s) == [k |-> "seq", v |-> s]
Map(pairs) == [k |-> "map", v |-> pairs]

IsStr(x, s) == x.k = "str" /\ x.v = s

\* key in d, for a dict d
HasKey(d, key) == \E j \in DOMAIN d.v : d.v[j][1] = key

\* d[key], for a dict d that has the key
Lookup(d, key) == d.v[CHOOSE j \in DOMAIN d.v : d.v[j][1] = key][2]

\* p in s, for two str: the substring test
IsSubstring(p, s) ==
    \E a \in 1..(Len(s) - Len(p) + 1) : SubSeq(s, a, a + Len(p) - 1) = p

\* Whether `key in c` is defined for c (otherwise it raises TypeError)
CanIn(c) == c.k \in {"map", "seq", "str"}

\* `key in c` for a str key: dict membership, list membership, substring
In(key, c) ==
    CASE c.k = "map" -> HasKey(c, key)
      [] c.k = "seq" -> \E j \in DOMAIN c.v : IsStr(c.v[j], key)
      [] c.k = "str" -> IsSubstring(key, c.v)
      [] OTHER -> FALSE

\* Whether c has the method get (otherwise c.get raises AttributeError)
CanGet(c) == c.k = "map"

\* c.get(key), c.get(key, default) for a dict c
GetOr(c, key, default) == IF HasKey(c, key) THEN Lookup(c, key) ELSE default
Get(c, key) == GetOr(c, key, Null)

\* Whether c[key] is defined for a str key (otherwise TypeError or KeyError)
CanIndex(c, key) == c.k = "map" /\ HasKey(c, key)

\* Whether iter(c) is defined (otherwise TypeError)
Iterable(c) == c.k \in {"map", "seq", "str"}

\* The items iterating c yields: list items, dict keys, characters of a str
Items(c) ==
    CASE c.k = "seq" -> c.v
      [] c.k = "map" -> [j \in DOMAIN c.v |-> Str(c.v[j][1])]
      [] c.k = "str" -> [j \in 1..Len(c.v) |-> Str(SubSeq(c.v, j, j))]
      [] OTHER -> <<>>

\* bool(x)
Truthy(x) ==
    CASE x.k = "null" -> FALSE
      [] x.k = "int" -> x.v # 0
      [] x.k = "str" -> Len(x.v) > 0
      [] OTHER -> Len(x.v) > 0

\* Whether hash(x) is defined (set membership raises TypeError otherwise)
Hashable(x) == x.k \in {"null", "str", "int"}

RECURSIVE Repr(_)
RECURSIVE JoinRepr(_, _)
RECURSIVE JoinPairs(_, _)
\* repr(x)
Repr(x) ==
    CASE x.k = "null" -> "None"
      [] x.k = "int" -> ToString(x.v)
      [] x.k = "str" -> "'" \o x.v \o "'"
      [] x.k = "seq" -> "[" \o JoinRepr(x.v, 1) \o "]"
      [] OTHER -> "{" \o JoinPairs(x.v, 1) \o "}"
JoinRepr(s, j) ==
    IF j > Len(s) THEN ""
    ELSE Repr(s[j]) \o (IF j < Len(s) THEN ", " ELSE "") \o JoinRepr(s, j + 1)
JoinPairs(s, j) ==
    IF j > Len(s) THEN ""
    ELSE "'" \o s[j][1] \o "': " \o Repr(s[j][2])
         \o (IF j < Len(s) THEN ", " ELSE "") \o JoinPairs(s, j + 1)

\* str(x), as an f-string formats a value
PyStr(x) == IF x.k = "str" THEN x.v ELSE Repr(x)

(***************************************************************************)
(* What a check yields: the errors and warnings it appended, in order, and *)
(* the exception that ended it ("none" when it returned).                  *)
(***************************************************************************)
Outcome(e, w, x) == [e |-> e, w |-> w, x |-> x]
Returned(e, w) == Outcome(e, w, "none")
Raised(e, w, x) == Outcome(e, w, x)

\* o, and then p unless o raised
Then(o, p) ==
    IF o.x # "none" THEN o ELSE Outcome(o.e \o p.e, o.w \o p.w, p.x)

\* for field in fields: if field not in c: append(pre + field + post)
MissingFields(fields, c, pre, post) ==
    LET miss == SelectSeq(fields, LAMBDA f : ~In(f, c))
    IN  [j \in DOMAIN miss |-> pre \o miss[j] \o post]

\* _validate_top_level(data)
ValidateTopLevel(data) ==
    IF ~CanIn(data) THEN Raised(<<>>, <<>>, "TypeError")
    ELSE LET miss == MissingFields(<<"kind", "version", "app", "workflow">>, data,
                                   "Missing required top-level field: ", "")
         IN  IF ~CanGet(data) THEN Raised(miss, <<>>, "AttributeError")
             ELSE IF ~IsStr(Get(data, "kind"), "app")
                  THEN Returned(miss \o <<"Invalid 'kind' value: expected 'app', got '"
                                          \o PyStr(Get(data, "kind")) \o "'">>, <<>>)
                  ELSE Returned(miss, <<>>)

\* The shape the App-section check would have if the mode comparison ran
\* only for a mode that is present
ValidateAppModePresentOnly(app) ==
    IF ~CanIn(app) THEN Raised(<<>>, <<>>, "TypeError")
    ELSE LET miss == MissingFields(<<"name", "mode">>, app,
                                   "Missing required app field: ", "")
         IN  IF ~CanGet(app) THEN Raised(miss, <<>>, "AttributeError")
             ELSE IF HasKey(app, "mode") /\ ~IsStr(Get(app, "mode"), "workflow")
                  THEN Returned(miss \o <<"Invalid app mode: expected 'workflow', got '"
                                          \o PyStr(Get(app, "mode")) \o "'">>, <<>>)
                  ELSE Returned(miss, <<>>)

\* _validate_app(app)
ValidateApp(app) ==
    IF ~CanIn(app) THEN Raised(<<>>, <<>>, "TypeError")
    ELSE LET miss == MissingFields(<<"name", "mode">>, app,
                                   "Missing required app field: ", "")
         IN  IF ~CanGet(app) THEN Raised(miss, <<>>, "AttributeError")
             ELSE IF ~IsStr(Get(app, "mode"), "workflow")
                  THEN Returned(miss \o <<"Invalid app mode: expected 'workflow', got '"
                                          \o PyStr(Get(app, "mode")) \o "'">>, <<>>)
                  ELSE Returned(miss, <<>>)

RECURSIVE StartVariables(_, _, _)
\* for var in data['variables'], from the j-th item on
StartVariables(items, j, nid) ==
    IF j > Len(items) THEN Returned(<<>>, <<>>)
    ELSE LET var == items[j] IN
         IF ~CanIn(var) THEN Raised(<<>>, <<>>, "TypeError")
         ELSE LET e1 == IF ~In("variable", var)
                        THEN <<"Variable in start node " \o nid \o " missing 'variable' name">>
                        ELSE <<>>
              IN  IF In("type", var)
                  THEN Then(Returned(e1, <<>>), StartVariables(items, j + 1, nid))
                  ELSE IF ~CanGet(var) THEN Raised(e1, <<>>, "AttributeError")
                  ELSE Then(Returned(e1 \o <<"Variable '"
                                             \o PyStr(GetOr(var, "variable", Str("?")))
                                             \o "' in start node " \o nid
                                             \o " missing 'type'">>, <<>>),
                            StartVariables(items, j + 1, nid))

\* _validate_start_node(node_id, data)
ValidateStartNode(nid, data) ==
    IF ~In("variables", data)
    THEN Returned(<<>>, <<"Start node " \o nid \o " has no variables defined">>)
    ELSE IF ~Iterable(Lookup(data, "variables")) THEN Raised(<<>>, <<>>, "TypeError")
    ELSE StartVariables(Items(Lookup(data, "variables")), 1, nid)

RECURSIVE EndOutputs(_, _, _)
\* for output in data['outputs'], from the j-th item on
EndOutputs(items, j, nid) ==
    IF j > Len(items) THEN Returned(<<>>, <<>>)
    ELSE LET output == items[j] IN
         IF ~CanIn(output) THEN Raised(<<>>, <<>>, "TypeError")
         ELSE LET e1 == IF ~In("variable", output)
                        THEN <<"Output in end node " \o nid \o " missing 'variable' name">>
                        ELSE <<>>
              IN  IF In("value_selector", output)
                  THEN Then(Returned(e1, <<>>), EndOutputs(items, j + 1, nid))
                  ELSE IF ~CanGet(output) THEN Raised(e1, <<>>, "AttributeError")
                  ELSE Then(Returned(e1 \o <<"Output '"
                                             \o PyStr(GetOr(output, "variable", Str("?")))
                                             \o "' in end node " \o nid
                                             \o " missing 'value_selector'">>, <<>>),
                            EndOutputs(items, j + 1, nid))

\* _validate_end_node(node_id, data)
ValidateEndNode(nid, data) ==
    IF ~In("outputs", data)
    THEN Returned(<<>>, <<"End node " \o nid \o " has no outputs defined">>)
    ELSE IF ~Iterable(Lookup(data, "outputs")) THEN Raised(<<>>, <<>>, "TypeError")
    ELSE EndOutputs(Items(Lookup(data, "outputs")), 1, nid)

\* _validate_llm_node(node_id, data)
ValidateLlmNode(nid, data) ==
    LET model == IF ~In("model", data)
                 THEN Returned(<<"LLM node " \o nid \o " missing 'model' configuration">>, <<>>)
                 ELSE IF ~CanIn(Lookup(data, "model")) THEN Raised(<<>>, <<>>, "TypeError")
                 ELSE Returned(MissingFields(<<"provider", "name", "mode">>,
                                             Lookup(data, "model"),
                                             "LLM node " \o nid \o " model missing '", "'"),
                               <<>>)
        prompt == IF ~In("prompt_template", data)
                  THEN Returned(<<"LLM node " \o nid \o " missing 'prompt_template'">>, <<>>)
                  ELSE IF ~Truthy(Lookup(data, "prompt_template"))
                  THEN Returned(<<>>, <<"LLM node " \o nid \o " has empty prompt_template">>)
                  ELSE Returned(<<>>, <<>>)
    IN  Then(model, prompt)

\* _validate_code_node(node_id, data)
ValidateCodeNode(nid, data) ==
    LET miss == MissingFields(<<"code", "code_language">>, data,
                              "Code node " \o nid \o " missing '", "'")
        lang == IF In("code_language", data)
                   /\ ~IsStr(Lookup(data, "code_language"), "python3")
                   /\ ~IsStr(Lookup(data, "code_language"), "javascript")
                THEN <<"Code node " \o nid \o " has invalid code_language: "
                       \o PyStr(Lookup(data, "code_language"))>>
                ELSE <<>>
        outs == IF ~In("outputs", data)
                THEN <<"Code node " \o nid \o " has no outputs defined">>
                ELSE <<>>
    IN  Returned(miss \o lang, outs)

\* _validate_aggregator_node(node_id, data)
ValidateAggregatorNode(nid, data) ==
    LET vars == IF ~In("variables", data)
                THEN Returned(<<"Variable aggregator node " \o nid \o " missing 'variables'">>, <<>>)
                ELSE IF ~Truthy(Lookup(data, "variables"))
                THEN Returned(<<>>, <<"Variable aggregator node " \o nid
                                      \o " has empty variables list">>)
                ELSE Returned(<<>>, <<>>)
        otype == IF ~In("output_type", data)
                 THEN Returned(<<"Variable aggregator node " \o nid \o " missing 'output_type'">>, <<>>)
                 ELSE Returned(<<>>, <<>>)
    IN  Then(vars, otype)

\* _validate_ifelse_node(node_id, data)
ValidateIfelseNode(nid, data) ==
    IF ~In("conditions", data)
    THEN Returned(<<"If-else node " \o nid \o " missing 'conditions'">>, <<>>)
    ELSE IF ~Truthy(Lookup(data, "conditions"))
    THEN Returned(<<>>, <<"If-else node " \o nid \o " has empty conditions list">>)
    ELSE Returned(<<>>, <<>>)

\* The if/elif chain on node_type: the per-type check of a node
ValidateByType(node_type, nid, data) ==
    CASE IsStr(node_type, "start") -> ValidateStartNode(nid, data)
      [] IsStr(node_type, "end") -> ValidateEndNode(nid, data)
      [] IsStr(node_type, "llm") -> ValidateLlmNode(nid, data)
      [] IsStr(node_type, "code") -> ValidateCodeNode(nid, data)
      [] IsStr(node_type, "variable-aggregator") -> ValidateAggregatorNode(nid, data)
      [] IsStr(node_type, "if-else") -> ValidateIfelseNode(nid, data)
      [] OTHER -> Returned(<<>>, <<>>)


(***************************************************************************)
(* _validate_workflow, piece by piece                                      *)
(***************************************************************************)
Prereq(e, x, go, nodes, edges) ==
    [e |-> e, x |-> x, go |-> go, nodes |-> nodes, edges |-> edges]

\* A workflow check that reports missing 'edges' and goes on to the nodes
ValidatePrereqNoStop(workflow) ==
    IF ~CanIn(workflow) THEN Prereq(<<>>, "TypeError", FALSE, Null, Null)
    ELSE IF ~In("graph", workflow)
    THEN Prereq(<<"Missing required workflow field: graph">>, "none", FALSE, Null, Null)
    ELSE IF ~CanIndex(workflow, "graph") THEN Prereq(<<>>, "TypeError", FALSE, Null, Null)
    ELSE LET graph == Lookup(workflow, "graph") IN
         IF ~CanIn(graph) THEN Prereq(<<>>, "TypeError", FALSE, Null, Null)
         ELSE IF ~In("nodes", graph)
         THEN Prereq(<<"Missing 'nodes' in graph">>, "none", FALSE, Null, Null)
         ELSE IF ~CanIndex(graph, "nodes")
         THEN Prereq(<<>>, "TypeError", FALSE, Null, Null)
         ELSE IF ~Iterable(Lookup(graph, "nodes"))
         THEN Prereq(<<>>, "TypeError", FALSE, Null, Null)
         ELSE IF ~In("edges", graph)
         THEN Prereq(<<"Missing 'edges' in graph">>, "none", TRUE,
                     Lookup(graph, "nodes"), List(<<>>))
         ELSE Prereq(<<>>, "none", TRUE, Lookup(graph, "nodes"), Lookup(graph, "edges"))

\* The structural prerequisites, up to the start of the node loop: the
\* errors appended, the exception raised, whether the loops are entered
\* (go), and the values of the locals nodes and edges
ValidatePrereq(workflow) ==
    IF ~CanIn(workflow) THEN Prereq(<<>>, "TypeError", FALSE, Null, Null)
    ELSE IF ~In("graph", workflow)
    THEN Prereq(<<"Missing required workflow field: graph">>, "none", FALSE, Null, Null)
    ELSE IF ~CanIndex(workflow, "graph") THEN Prereq(<<>>, "TypeError", FALSE, Null, Null)
    ELSE LET graph == Lookup(workflow, "graph") IN
         IF ~CanIn(graph) THEN Prereq(<<>>, "TypeError", FALSE, Null, Null)
         ELSE IF ~In("nodes", graph)
         THEN Prereq(<<"Missing 'nodes' in graph">>, "none", FALSE, Null, Null)
         ELSE IF ~In("edges", graph)
         THEN Prereq(<<"Missing 'edges' in graph">>, "none", FALSE, Null, Null)
         ELSE IF ~CanIndex(graph, "nodes") \/ ~CanIndex(graph, "edges")
         THEN Prereq(<<>>, "TypeError", FALSE, Null, Null)
         ELSE IF ~Iterable(Lookup(graph, "nodes"))
         THEN Prereq(<<>>, "TypeError", FALSE, Null, Null)
         ELSE Prereq(<<>>, "none", TRUE, Lookup(graph, "nodes"), Lookup(graph, "edges"))

\* What one iteration of the node loop yields: its outcome and the new
\* values of node_ids, has_start and has_end
NodeResult(o, ids, hs, he) ==
    [e |-> o.e, w |-> o.w, x |-> o.x, ids |-> ids, hs |-> hs, he |-> he]

\* The node loop from the check of 'data' on: dup is the duplicate-id error
\* the iteration has appended (or none)
ValidateData(node, nid, dup, ids, hs, he) ==
    IF ~HasKey(node, "data")
    THEN NodeResult(Returned(dup \o <<"Node " \o nid \o " missing 'data'">>, <<>>),
                    ids, hs, he)
    ELSE LET data == Lookup(node, "data") IN
         IF ~CanGet(data)
         THEN NodeResult(Raised(dup, <<>>, "AttributeError"), ids, hs, he)
         ELSE LET node_type == Get(data, "type") IN
              IF ~Truthy(node_type)
              THEN NodeResult(Returned(dup \o <<"Node " \o nid \o " missing type">>, <<>>),
                              ids, hs, he)
              ELSE NodeResult(Then(Returned(dup, <<>>),
                                   ValidateByType(node_type, nid, data)),
                              ids,
                              hs \/ IsStr(node_type, "start"),
                              he \/ IsStr(node_type, "end"))

\* A node loop that gives up on a node whose id was already seen
ValidateIdentifiedSkipDuplicate(node, node_id, ids, hs, he) ==
    IF ~Hashable(node_id)
    THEN NodeResult(Raised(<<>>, <<>>, "TypeError"), ids, hs, he)
    ELSE IF node_id \in ids
    THEN NodeResult(Returned(<<"Duplicate node ID: " \o PyStr(node_id)>>, <<>>),
                    ids, hs, he)
    ELSE ValidateData(node, PyStr(node_id), <<>>, ids \cup {node_id}, hs, he)

\* The node loop from the duplicate check on, for a node that has an id
ValidateIdentified(node, node_id, ids, hs, he) ==
    IF ~Hashable(node_id)
    THEN NodeResult(Raised(<<>>, <<>>, "TypeError"), ids, hs, he)
    ELSE ValidateData(node, PyStr(node_id),
                      IF node_id \in ids
                      THEN <<"Duplicate node ID: " \o PyStr(node_id)>> ELSE <<>>,
                      ids \cup {node_id}, hs, he)

\* A node loop without the `continue` after the missing-id error
ValidateNodeNoContinue(i, node, ids, hs, he) ==
    IF ~CanGet(node)
    THEN NodeResult(Raised(<<>>, <<>>, "AttributeError"), ids, hs, he)
    ELSE IF ~Truthy(Get(node, "id"))
    THEN LET r == ValidateIdentified(node, Get(node, "id"), ids, hs, he)
         IN  NodeResult(Then(Returned(<<"Node at index " \o ToString(i)
                                        \o " missing 'id'">>, <<>>), r),
                        r.ids, r.hs, r.he)
    ELSE ValidateIdentified(node, Get(node, "id"), ids, hs, he)

\* One iteration of `for i, node in enumerate(nodes)`
ValidateNode(i, node, ids, hs, he) ==
    IF ~CanGet(node)
    THEN NodeResult(Raised(<<>>, <<>>, "AttributeError"), ids, hs, he)
    ELSE IF ~Truthy(Get(node, "id"))
    THEN NodeResult(Returned(<<"Node at index " \o ToString(i) \o " missing 'id'">>, <<>>),
                    ids, hs, he)
    ELSE ValidateIdentified(node, Get(node, "id"), ids, hs, he)

MsgNoStart == "Workflow must have at least one 'start' node"
MsgNoEnd == "Workflow must have at least one 'end' node"

\* A role check that chains the two tests with elif
RolesCheckElif(hs, he) ==
    IF ~hs THEN <<MsgNoStart>> ELSE IF ~he THEN <<MsgNoEnd>> ELSE <<>>

\* if not has_start: ...; if not has_end: ...
RolesCheck(hs, he) ==
    (IF ~hs THEN <<MsgNoStart>> ELSE <<>>) \o (IF ~he THEN <<MsgNoEnd>> ELSE <<>>)

\* The test of one endpoint of an edge; role is "source" or "target"
ValidateEndpoint(i, value, ids, role) ==
    IF ~Truthy(value)
    THEN Returned(<<"Edge at index " \o ToString(i) \o " missing '" \o role \o "'">>, <<>>)
    ELSE IF ~Hashable(value) THEN Raised(<<>>, <<>>, "TypeError")
    ELSE IF value \notin ids
    THEN Returned(<<"Edge references non-existent " \o role \o " node: "
                    \o PyStr(value)>>, <<>>)
    ELSE Returned(<<>>, <<>>)

\* An edge loop that tests the target only when the source passed
ValidateEdgeChained(i, edge, ids) ==
    IF ~CanGet(edge) THEN Raised(<<>>, <<>>, "AttributeError")
    ELSE LET s == ValidateEndpoint(i, Get(edge, "source"), ids, "source")
         IN  IF s.e # <<>> THEN s
             ELSE Then(s, ValidateEndpoint(i, Get(edge, "target"), ids, "target"))

\* One iteration of `for i, edge in enumerate(edges)`
ValidateEdge(i, edge, ids) ==
    IF ~CanGet(edge) THEN Raised(<<>>, <<>>, "AttributeError")
    ELSE Then(ValidateEndpoint(i, Get(edge, "source"), ids, "source"),
              ValidateEndpoint(i, Get(edge, "target"), ids, "target"))


(***************************************************************************)
(* validate(file_path) as one function of the file: the result of a call   *)
(* that starts from empty accumulators and runs undisturbed                *)
(***************************************************************************)
RECURSIVE NodeLoop(_, _, _, _, _)
\* The node loop from index i on (nodes are the items of the iterator)
NodeLoop(nodes, i, ids, hs, he) ==
    IF i >= Len(nodes) THEN NodeResult(Returned(<<>>, <<>>), ids, hs, he)
    ELSE LET r == ValidateNode(i, nodes[i + 1], ids, hs, he) IN
         IF r.x # "none" THEN r
         ELSE LET rest == NodeLoop(nodes, i + 1, r.ids, r.hs, r.he)
              IN  NodeResult(Then(r, rest), rest.ids, rest.hs, rest.he)

RECURSIVE EdgeLoop(_, _, _)
\* The edge loop from index i on
EdgeLoop(edges, i, ids) ==
    IF i >= Len(edges) THEN Returned(<<>>, <<>>)
    ELSE Then(ValidateEdge(i, edges[i + 1], ids), EdgeLoop(edges, i + 1, ids))

\* _validate_workflow(workflow)
ValidateWorkflow(workflow) ==
    LET p == ValidatePrereq(workflow) IN
    IF p.x # "none" \/ ~p.go THEN Outcome(p.e, <<>>, p.x)
    ELSE LET n == NodeLoop(Items(p.nodes), 0, {}, FALSE, FALSE)
             roles == Returned(RolesCheck(n.hs, n.he), <<>>)
             edges == IF ~Iterable(p.edges) THEN Raised(<<>>, <<>>, "TypeError")
                      ELSE EdgeLoop(Items(p.edges), 0, n.ids)
         IN  Then(Returned(p.e, <<>>), Then(n, Then(roles, edges)))

FilePath == "workflow.yml"
YamlDetail == "mapping values are not allowed here"

\* The files a call can be given: one that loads into a document tree, one
\* that does not exist, one that is not YAML
LoadedFile(tree) == [st |-> "ok", tree |-> tree]
MissingFile == [st |-> "missing", tree |-> Null]
MalformedFile == [st |-> "malformed", tree |-> Null]

\* The except clauses of validate: the error a failed load appends
LoadError(file) ==
    IF file.st = "missing" THEN <<"File not found: " \o FilePath>>
    ELSE <<"YAML parsing error: " \o YamlDetail>>

\* The body of validate after a successful load
ValidateTree(data) ==
    LET top == ValidateTopLevel(data) IN
    IF top.x # "none" THEN top
    ELSE LET app == IF In("app", data) THEN ValidateApp(Lookup(data, "app"))
                    ELSE Returned(<<>>, <<>>)
         IN  IF app.x # "none" THEN Then(top, app)
             ELSE LET wf == IF In("workflow", data)
                            THEN ValidateWorkflow(Lookup(data, "workflow"))
                            ELSE Returned(<<>>, <<>>)
                  IN  Then(top, Then(app, wf))

\* What a call returns: the exception (x), or the tuple (is_valid, errors,
\* warnings)
Result(x, e, w) == [x |-> x, valid |-> (x = "none" /\ e = <<>>), e |-> e, w |-> w]
Pending == [x |-> "pending", valid |-> FALSE, e |-> <<>>, w |-> <<>>]

\* validate(file_path) on a fresh instance
Validate(file) ==
    IF file.st # "ok" THEN Result("none", LoadError(file), <<>>)
    ELSE LET o == ValidateTree(file.tree)
         IN  IF o.x # "none" THEN Result(o.x, <<>>, <<>>) ELSE Result("none", o.e, o.w)


(***************************************************************************)
(* The documents the calls are given                                       *)
(***************************************************************************)
MaxNodes == 2
MaxEdges == 2

SeqsUpTo(S, n) == UNION {[1..m -> S] : m \in 0..n}

Node(id, data) == Map(<< <<"id", id>>, <<"data", data>> >>)
Typed(type) == Map(<< <<"type", Str(type)>> >>)
TypedWith(type, fields) == Map(<< <<"type", Str(type)>> >> \o fields)
Edge(source, target) == Map(<< <<"source", source>>, <<"target", target>> >>)

\* Nodes that make up the node lists of every length up to MaxNodes
NodePool ==
    { Node(Str("a"), Typed("start")),
      Node(Str("b"), Typed("end")),
      Node(Str("a"), TypedWith("end", << <<"outputs", List(<<Map(<<>>)>>)>> >>)),
      Node(Str("a"), TypedWith("code", << <<"code_language", Str("ruby")>> >>)),
      Map(<< <<"data", Typed("start")>> >>),
      Node(Str(""), Typed("end")),
      Map(<< <<"id", Str("b")>> >>),
      Node(Str("b"), Map(<<>>)),
      Node(Num(7), Typed("tool")),
      Str("node"),
      Node(List(<<Str("a")>>), Typed("start")),
      Node(Str("b"), Null) }

GoodVar == Map(<< <<"variable", Str("q")>>, <<"type", Str("string")>> >>)
GoodOutput == Map(<< <<"variable", Str("r")>>, <<"value_selector", List(<<Str("a"), Str("q")>>)>> >>)
GoodModel == Map(<< <<"provider", Str("openai")>>, <<"name", Str("gpt")>>, <<"mode", Str("chat")>> >>)

\* The data of nodes that exercise each branch of the per-type checks
DataPool ==
    { TypedWith("start", << <<"variables", v>> >>) :
        v \in { List(<<>>), List(<<GoodVar>>), List(<<Map(<<>>), GoodVar>>),
                List(<<Map(<< <<"variable", Str("q")>> >>)>>),
                List(<<Map(<< <<"type", Str("string")>> >>)>>),
                List(<<Map(<< <<"variable", List(<<Num(1)>>)>> >>)>>),
                List(<<Str("variable type")>>), List(<<Str("x")>>),
                List(<<GoodVar, Null>>), Null, Str(""), Num(3),
                Map(<< <<"variable", Str("q")>> >>) } }
    \cup
    { TypedWith("end", << <<"outputs", v>> >>) :
        v \in { List(<<>>), List(<<GoodOutput>>), List(<<Map(<<>>)>>),
                List(<<Map(<< <<"variable", Str("r")>> >>), GoodOutput>>),
                List(<<Map(<< <<"value_selector", List(<<>>)>> >>)>>),
                List(<<Str("variable")>>), List(<<Num(1)>>), Null } }
    \cup
    { Typed("llm"),
      TypedWith("llm", << <<"model", Map(<<>>)>>, <<"prompt_template", Str("")>> >>),
      TypedWith("llm", << <<"model", GoodModel>>, <<"prompt_template", List(<<Str("hi")>>)>> >>),
      TypedWith("llm", << <<"model", Map(<< <<"name", Str("gpt")>> >>)>> >>),
      TypedWith("llm", << <<"model", Null>>, <<"prompt_template", Str("hi")>> >>),
      TypedWith("llm", << <<"model", Str("provider name mode")>>, <<"prompt_template", List(<<>>)>> >>),
      Typed("code"),
      TypedWith("code", << <<"code", Str("pass")>>, <<"code_language", Str("python3")>>,
                           <<"outputs", Map(<<>>)>> >>),
      TypedWith("code", << <<"code", Str("1")>>, <<"code_language", Str("javascript")>> >>),
      TypedWith("code", << <<"code", Str("1")>>, <<"code_language", Str("ruby")>>,
                           <<"outputs", Map(<<>>)>> >>),
      TypedWith("code", << <<"code_language", List(<<Str("python3")>>)>> >>),
      TypedWith("code", << <<"code_language", Null>>, <<"outputs", Null>> >>),
      Typed("variable-aggregator"),
      TypedWith("variable-aggregator", << <<"variables", List(<<>>)>>, <<"output_type", Str("string")>> >>),
      TypedWith("variable-aggregator", << <<"variables", List(<<Str("x")>>)>> >>),
      Typed("if-else"),
      TypedWith("if-else", << <<"conditions", List(<<>>)>> >>),
      TypedWith("if-else", << <<"conditions", List(<<Map(<<>>)>>)>> >>),
      Typed("tool"), Typed(""),
      Map(<< <<"type", Null>> >>), Map(<< <<"type", Num(0)>> >>),
      Map(<< <<"type", List(<<Str("start")>>)>> >>),
      Map(<< <<"type", Num(5)>>, <<"variables", Null>> >>),
      Str("type"), List(<<>>) }

\* Edges that make up the edge lists of every length up to MaxEdges
EdgePool ==
    { Edge(Str("a"), Str("b")),
      Edge(Str("a"), Str("z")),
      Edge(Str("z"), Str("y")),
      Map(<<>>),
      Edge(Str(""), Str("b")),
      Edge(Null, Str("z")),
      Edge(Num(7), Num(0)),
      Edge(List(<<Str("a")>>), Str("z")),
      Edge(Str("z"), Map(<< <<"id", Str("a")>> >>)),
      Str("edge") }

GoodNodes == <<Node(Str("a"), Typed("start")), Node(Str("b"), Typed("end"))>>
GoodEdges == <<Edge(Str("a"), Str("b"))>>
Graph(nodes, edges) == Map(<< <<"nodes", nodes>>, <<"edges", edges>> >>)
Workflow(graph) == Map(<< <<"graph", graph>> >>)
GoodApp == Map(<< <<"name", Str("demo")>>, <<"mode", Str("workflow")>> >>)
BadApp == Map(<< <<"mode", Str("chat")>> >>)
GoodWorkflow == Workflow(Graph(List(GoodNodes), List(GoodEdges)))
\* A workflow with a defect in a node, in the roles and in an edge
BadWorkflow ==
    Workflow(Graph(List(<<Map(<< <<"data", Typed("start")>> >>),
                          Node(Str("b"), TypedWith("end", << <<"outputs", List(<<Map(<<>>)>>)>> >>))>>),
                   List(<<Edge(Str("b"), Str("z"))>>)))

Document(kind, app, workflow) ==
    Map(<< <<"kind", kind>>, <<"version", Str("0.1.0")>>, <<"app", app>>,
           <<"workflow", workflow>> >>)

\* Roots of every shape, and maps with every subset of the top-level keys
TopLevelDocuments ==
    { Null, Num(0), Str(""), Str("kind version app workflow"), List(<<>>),
      List(<<Str("kind"), Str("version"), Str("app"), Str("workflow")>>) }
    \cup
    { Map(SelectSeq(Document(kind, app, workflow).v, LAMBDA p : p[1] \in keys)) :
        keys \in SUBSET {"kind", "version", "app", "workflow"},
        kind \in { Str("app"), Str("chat"), Null, List(<<Str("app")>>),
                   Map(<< <<"a", Num(1)>>, <<"b", Str("c")>> >>) },
        app \in {GoodApp, BadApp},
        workflow \in {GoodWorkflow, BadWorkflow} }

AppDocuments ==
    { Document(kind, app, workflow) :
        kind \in {Str("app"), Str("chat")},
        app \in { Null, Num(3), Str("name mode"), Str("x"), List(<<Str("name")>>),
                  Map(<<>>), Map(<< <<"name", Str("demo")>> >>),
                  Map(<< <<"mode", Str("workflow")>> >>),
                  Map(<< <<"name", Str("demo")>>, <<"mode", Str("chat")>> >>),
                  Map(<< <<"name", Str("demo")>>, <<"mode", Null>> >>),
                  Map(<< <<"name", Null>>, <<"mode", List(<<Str("workflow")>>)>> >>),
                  Map(<< <<"mode", Str("None")>> >>),
                  GoodApp },
        workflow \in {GoodWorkflow, BadWorkflow} }

BadNodes == List(<<Map(<<>>), Str("node"), Node(Str("a"), Typed("llm"))>>)
BadEdges == List(<<Edge(Str("z"), Null), Str("edge")>>)

WorkflowShapes ==
    { Null, Num(1), Str("graph"), Str("x"), List(<<Str("graph")>>), List(<<>>),
      Map(<<>>), Map(<< <<"nodes", BadNodes>>, <<"edges", BadEdges>> >>),
      Workflow(Null), Workflow(Num(2)), Workflow(Str("nodes edges")),
      Workflow(Str("nodes")), Workflow(Str("edges")),
      Workflow(List(<<Str("nodes")>>)), Workflow(List(<<Str("nodes"), Str("edges")>>)),
      Workflow(Map(<<>>)),
      Workflow(Map(<< <<"edges", BadEdges>> >>)),
      Workflow(Map(<< <<"nodes", BadNodes>> >>)),
      Workflow(Map(<< <<"nodes", List(GoodNodes)>> >>)),
      Workflow(Graph(Null, List(<<>>))), Workflow(Graph(Num(1), BadEdges)),
      Workflow(Graph(Str("ab"), List(<<>>))), Workflow(Graph(Str(""), Null)),
      Workflow(Graph(Map(<<>>), Map(<<>>))),
      Workflow(Graph(Map(<< <<"a", Typed("start")>> >>), List(<<>>))),
      Workflow(Graph(List(GoodNodes), Null)), Workflow(Graph(List(GoodNodes), Num(0))),
      Workflow(Graph(List(GoodNodes), Str("ab"))),
      Workflow(Graph(List(GoodNodes), Map(<< <<"a", Str("b")>> >>))),
      Workflow(Graph(BadNodes, Null)) }

WorkflowDocuments ==
    { Document(Str("app"), app, workflow) :
        app \in {GoodApp, BadApp}, workflow \in WorkflowShapes }

NodeDocuments ==
    { Document(Str("app"), GoodApp, Workflow(Graph(List(nodes), List(GoodEdges)))) :
        nodes \in SeqsUpTo(NodePool, MaxNodes) }
    \cup
    { Document(Str("app"), GoodApp,
               Workflow(Graph(List(<<Node(id, data)>>), List(<<>>)))) :
        id \in {Str("n1"), Num(1718)}, data \in DataPool }

EdgeDocuments ==
    { Document(Str("app"), GoodApp, Workflow(Graph(List(nodes), List(edges)))) :
        nodes \in { GoodNodes, <<>>,
                    <<Node(Str("a"), Typed("start")), Map(<< <<"data", Typed("end")>> >>)>>,
                    <<Node(Num(7), Typed("tool")), Node(Str(""), Typed("end")),
                      Map(<< <<"id", Str("b")>> >>)>> },
        edges \in SeqsUpTo(EdgePool, MaxEdges) }

Documents ==
    TopLevelDocuments \cup AppDocuments \cup WorkflowDocuments
        \cup NodeDocuments \cup EdgeDocuments

Files == {LoadedFile(d) : d \in Documents} \cup {MissingFile, MalformedFile}


(***************************************************************************)
(* The state: validator instances with their accumulators, and the calls   *)
(* of validate in progress, one per thread                                 *)
(***************************************************************************)
Threads == {1, 2}
Instances == {1, 2}

VARIABLES
    errors,     \* errors[s]: self.errors of instance s
    warnings,   \* warnings[s]: self.warnings of instance s
    inst,       \* inst[t]: the instance thread t calls validate on
    frame,      \* frame[t]: the position and the locals of thread t's call
    ret,        \* ret[t]: what thread t's latest call returned or raised
    errFrom,    \* history: for each entry of errors[s], the check that appended it
    warnFrom,   \* history: the same for warnings[s]
    stale       \* history: stale[t] iff the accumulators held entries when
                \* thread t's call was entered

vars == <<errors, warnings, inst, frame, ret, errFrom, warnFrom, stale>>

Idle == [pc |-> "idle", file |-> MissingFile, nodes |-> <<>>, edges |-> Null,
         node_ids |-> {}, has_start |-> FALSE, has_end |-> FALSE, i |-> 0]

\* The frame of a call of validate(file) at position pc
At(pc, file) == [Idle EXCEPT !.pc = pc, !.file = file]

\* The check that appended an entry: thread, phase (0 load, 1 top level,
\* 2 app, 3 workflow prerequisites, 4 node, 5 roles, 6 edge), loop index
Origin(t, ph, i) == [t |-> t, ph |-> ph, i |-> i]

\* An accumulator that takes new entries at its front
EmitFront(list, new) == new \o list

\* list.append(m) for each m of new, in order
Emit(list, new) == list \o new

\* Instance fields that keep their lists over a call entry
NoReset(acc, self) == acc

\* self.errors = [] / self.warnings = []
Reset(acc, self) == [acc EXCEPT ![self] = <<>>]

\* One accumulator object for all instances
SharedSelf(t) == 1

\* The self of thread t's call
Self(t) == inst[t]

\* The accumulators after a check of thread t with outcome o appended
Accumulate(t, o, ph, i) ==
    /\ errors' = [errors EXCEPT ![Self(t)] = Emit(@, o.e)]
    /\ warnings' = [warnings EXCEPT ![Self(t)] = Emit(@, o.w)]
    /\ errFrom' = [errFrom EXCEPT
                     ![Self(t)] = Emit(@, [j \in DOMAIN o.e |-> Origin(t, ph, i)])]
    /\ warnFrom' = [warnFrom EXCEPT
                      ![Self(t)] = Emit(@, [j \in DOMAIN o.w |-> Origin(t, ph, i)])]

\* The exception x leaves validate (the frame is kept as the call left it)
Raise(t, x) ==
    /\ frame' = [frame EXCEPT ![t].pc = "raised"]
    /\ ret' = [ret EXCEPT ![t] = Result(x, <<>>, <<>>)]

Goto(t, pc) ==
    /\ frame' = [frame EXCEPT ![t].pc = pc]
    /\ UNCHANGED ret

\* validate, lines 25-36: reset the accumulators and load the file
Call(t, files, from) ==
    /\ frame[t].pc \in from
    /\ \E file \in files :
        LET e == IF file.st = "ok" THEN <<>> ELSE LoadError(file) IN
        /\ errors' = [Reset(errors, Self(t)) EXCEPT ![Self(t)] = Emit(@, e)]
        /\ warnings' = Reset(warnings, Self(t))
        /\ errFrom' = [Reset(errFrom, Self(t)) EXCEPT
                         ![Self(t)] = Emit(@, [j \in DOMAIN e |-> Origin(t, 0, 0)])]
        /\ warnFrom' = Reset(warnFrom, Self(t))
        /\ stale' = [stale EXCEPT ![t] = errors[Self(t)] # <<>> \/ warnings[Self(t)] # <<>>]
        /\ IF file.st = "ok"
           THEN /\ frame' = [frame EXCEPT ![t] = At("top", file)]
                /\ ret' = [ret EXCEPT ![t] = Pending]
           ELSE /\ frame' = [frame EXCEPT ![t] = At("done", file)]
                /\ ret' = [ret EXCEPT ![t] =
                             Result("none", errors'[Self(t)], warnings'[Self(t)])]
    /\ UNCHANGED inst

\* validate, line 39: self._validate_top_level(data)
TopLevel(t) ==
    /\ frame[t].pc = "top"
    /\ LET o == ValidateTopLevel(frame[t].file.tree) IN
        /\ Accumulate(t, o, 1, 0)
        /\ IF o.x # "none" THEN Raise(t, o.x) ELSE Goto(t, "app")
    /\ UNCHANGED <<inst, stale>>

\* validate, lines 42-43: the app section, if the document has one
AppSection(t) ==
    /\ frame[t].pc = "app"
    /\ LET data == frame[t].file.tree
           o == IF In("app", data) THEN ValidateApp(Lookup(data, "app"))
                ELSE Returned(<<>>, <<>>)
       IN /\ Accumulate(t, o, 2, 0)
          /\ IF o.x # "none" THEN Raise(t, o.x) ELSE Goto(t, "workflow")
    /\ UNCHANGED <<inst, stale>>

\* validate, lines 46-47, and _validate_workflow up to the node loop
WorkflowSection(t) ==
    /\ frame[t].pc = "workflow"
    /\ LET data == frame[t].file.tree IN
        IF ~In("workflow", data)
        THEN /\ Goto(t, "result")
             /\ UNCHANGED <<errors, warnings, errFrom, warnFrom>>
        ELSE LET p == ValidatePrereq(Lookup(data, "workflow")) IN
             /\ Accumulate(t, Outcome(p.e, <<>>, p.x), 3, 0)
             /\ IF p.x # "none" THEN Raise(t, p.x)
                ELSE IF ~p.go THEN Goto(t, "result")
                ELSE /\ frame' = [frame EXCEPT ![t].pc = "nodes",
                                               ![t].nodes = Items(p.nodes),
                                               ![t].edges = p.edges]
                     /\ UNCHANGED ret
    /\ UNCHANGED <<inst, stale>>

\* One iteration of the node loop
NodeStep(t) ==
    /\ frame[t].pc = "nodes"
    /\ frame[t].i < Len(frame[t].nodes)
    /\ LET f == frame[t]
           r == ValidateNode(f.i, f.nodes[f.i + 1], f.node_ids, f.has_start, f.has_end)
       IN /\ Accumulate(t, r, 4, f.i)
          /\ IF r.x # "none" THEN Raise(t, r.x)
             ELSE /\ frame' = [frame EXCEPT ![t].i = f.i + 1,
                                            ![t].node_ids = r.ids,
                                            ![t].has_start = r.hs,
                                            ![t].has_end = r.he]
                  /\ UNCHANGED ret
    /\ UNCHANGED <<inst, stale>>

\* After the node loop: the start/end errors, then the edge iterator
Roles(t) ==
    /\ frame[t].pc = "nodes"
    /\ frame[t].i = Len(frame[t].nodes)
    /\ LET f == frame[t] IN
        /\ Accumulate(t, Returned(RolesCheck(f.has_start, f.has_end), <<>>), 5, 0)
        /\ IF ~Iterable(f.edges) THEN Raise(t, "TypeError")
           ELSE /\ frame' = [frame EXCEPT ![t].pc = "edges", ![t].i = 0,
                                          ![t].edges = List(Items(f.edges))]
                /\ UNCHANGED ret
    /\ UNCHANGED <<inst, stale>>

\* One iteration of the edge loop
EdgeStep(t) ==
    /\ frame[t].pc = "edges"
    /\ frame[t].i < Len(frame[t].edges.v)
    /\ LET f == frame[t]
           o == ValidateEdge(f.i, f.edges.v[f.i + 1], f.node_ids)
       IN /\ Accumulate(t, o, 6, f.i)
          /\ IF o.x # "none" THEN Raise(t, o.x)
             ELSE /\ frame' = [frame EXCEPT ![t].i = f.i + 1]
                  /\ UNCHANGED ret
    /\ UNCHANGED <<inst, stale>>

\* validate, lines 49-50: is_valid and the return of the accumulators
Return(t) ==
    /\ \/ frame[t].pc = "result"
       \/ frame[t].pc = "edges" /\ frame[t].i = Len(frame[t].edges.v)
    /\ frame' = [frame EXCEPT ![t].pc = "done"]
    /\ ret' = [ret EXCEPT ![t] = Result("none", errors[Self(t)], warnings[Self(t)])]
    /\ UNCHANGED <<errors, warnings, errFrom, warnFrom, inst, stale>>

\* The steps of a call once entered
Step(t) ==
    \/ TopLevel(t)
    \/ AppSection(t)
    \/ WorkflowSection(t)
    \/ NodeStep(t)
    \/ Roles(t)
    \/ EdgeStep(t)
    \/ Return(t)

InitFields ==
    /\ errors = [s \in Instances |-> <<>>]
    /\ warnings = [s \in Instances |-> <<>>]
    /\ errFrom = [s \in Instances |-> <<>>]
    /\ warnFrom = [s \in Instances |-> <<>>]
    /\ frame = [t \in Threads |-> Idle]
    /\ ret = [t \in Threads |-> Pending]
    /\ stale = [t \in Threads |-> FALSE]

(***************************************************************************)
(* Spec: one caller validates file after file on one instance              *)
(***************************************************************************)
Init ==
    /\ InitFields
    /\ inst = [t \in Threads |-> 1]

\* The files of the calls that follow another call on the instance
AgainFiles ==
    { LoadedFile(Document(Str("app"), GoodApp, GoodWorkflow)),
      LoadedFile(Document(Str("chat"), BadApp, BadWorkflow)),
      LoadedFile(Document(Str("app"), GoodApp, Workflow(Graph(List(GoodNodes), Null)))),
      LoadedFile(Document(Str("app"), GoodApp, Workflow(Map(<<>>)))),
      LoadedFile(Null),
      MissingFile }

\* The first call on the instance
Begin(t) == Call(t, Files, {"idle"})

\* A further call on the instance, after the previous one returned or raised
Again(t) == Call(t, AgainFiles, {"done", "raised"})

Next == Begin(1) \/ Again(1) \/ Step(1)

Spec == Init /\ [][Next]_vars

(***************************************************************************)
(* SpecConc: two threads each make one call, on one shared instance or on  *)
(* an instance each, their steps interleaved                               *)
(***************************************************************************)
ConcFiles ==
    { LoadedFile(Document(Str("app"), GoodApp, GoodWorkflow)),
      LoadedFile(Document(Str("chat"), BadApp, BadWorkflow)),
      LoadedFile(Document(Str("app"), GoodApp, Workflow(Graph(List(GoodNodes), Null)))),
      MissingFile }

InitConc ==
    /\ InitFields
    /\ inst \in {[t \in Threads |-> 1], [t \in Threads |-> t]}

BeginOnce(t) == Call(t, ConcFiles, {"idle"})

NextConc == \E t \in Threads : BeginOnce(t) \/ Step(t)

SpecConc == InitConc /\ [][NextConc]_vars


(***************************************************************************)
(* Vocabulary of the properties.  Under Spec the caller is thread 1 and    *)
(* the instance is instance 1.                                             *)
(***************************************************************************)
Tree == frame[1].file.tree
Loaded == frame[1].file.st = "ok"
Done == frame[1].pc = "done" /\ Loaded

RECURSIVE Entries(_, _, _, _, _)
\* The entries of list, from the n-th on, that check i of a phase in phs
\* appended (i = -1: any index), in their order in list
Entries(list, from, phs, i, n) ==
    IF n > Len(list) THEN <<>>
    ELSE (IF from[n].ph \in phs /\ (i = -1 \/ from[n].i = i) THEN <<list[n]>> ELSE <<>>)
         \o Entries(list, from, phs, i, n + 1)

ErrorsOf(phs, i) == Entries(errors[1], errFrom[1], phs, i, 1)
WarningsOf(phs, i) == Entries(warnings[1], warnFrom[1], phs, i, 1)

Count(list, m) == Cardinality({n \in DOMAIN list : list[n] = m})
HasPrefix(m, pre) == Len(m) >= Len(pre) /\ SubSeq(m, 1, Len(pre)) = pre

\* The document has a workflow whose graph is a map
HasGraph(d) ==
    /\ d.k = "map" /\ HasKey(d, "workflow")
    /\ Lookup(d, "workflow").k = "map" /\ HasKey(Lookup(d, "workflow"), "graph")
    /\ Lookup(Lookup(d, "workflow"), "graph").k = "map"
GraphOf(d) == Lookup(Lookup(d, "workflow"), "graph")
\* ... and the graph has both nodes and edges
GraphComplete(d) ==
    HasGraph(d) /\ HasKey(GraphOf(d), "nodes") /\ HasKey(GraphOf(d), "edges")

\* The nodes and edges of a document whose graph is complete and whose
\* validation returned (both are then iterable)
NodesOf(d) == Items(Lookup(GraphOf(d), "nodes"))
EdgesOf(d) == Items(Lookup(GraphOf(d), "edges"))
IdOf(node) == IF node.k = "map" THEN Get(node, "id") ELSE Null
TypeOf(node) ==
    IF node.k = "map" /\ HasKey(node, "data") /\ Lookup(node, "data").k = "map"
    THEN Get(Lookup(node, "data"), "type") ELSE Null
\* The ids of the declared nodes (a node without id, or with an empty one,
\* declares none)
DeclaredIds(d) == {IdOf(NodesOf(d)[n]) : n \in {m \in DOMAIN NodesOf(d) : Truthy(IdOf(NodesOf(d)[m]))}}

\* C1: validate never raises: whatever tree the load produced, the call
\* returns a report.
C1_NeverRaises == frame[1].pc # "raised"

\* C2: whenever a call on the instance has ended, whatever calls preceded it
\* on the instance, its result (is_valid, errors, warnings, in order) is the
\* result of a fresh instance for the same file, and the accumulators hold
\* exactly that report.
C2_NoLeak ==
    frame[1].pc \in {"done", "raised"} =>
        /\ ret[1] = Validate(frame[1].file)
        /\ frame[1].pc = "done" => errors[1] = ret[1].e /\ warnings[1] = ret[1].w
\* A call that returned a valid report with warnings although the
\* accumulators held the entries of an earlier call when it was entered
C2_Witness ==
    /\ Done /\ stale[1]
    /\ ret[1].valid /\ ret[1].w # <<>>

\* The app check has run to its end on a document that has an app section
AppChecked ==
    /\ Loaded /\ frame[1].pc \in {"workflow", "nodes", "edges", "result", "done"}
    /\ HasKey(Tree, "app")
AppOf == Lookup(Tree, "app")
IsInvalidMode(m) == HasPrefix(m, "Invalid app mode")
InvalidModeErrors == SelectSeq(ErrorsOf({2}, -1), IsInvalidMode)

\* C3, as claimed: the invalid-mode error is produced only when mode is
\* present and differs from "workflow"; an app section that lacks mode yields
\* only the missing-field errors.
C3_OnlyWhenPresent ==
    AppChecked =>
        /\ InvalidModeErrors # <<>> =>
              HasKey(AppOf, "mode") /\ ~IsStr(Lookup(AppOf, "mode"), "workflow")
        /\ ~HasKey(AppOf, "mode") =>
              \A n \in DOMAIN ErrorsOf({2}, -1) :
                  HasPrefix(ErrorsOf({2}, -1)[n], "Missing required app field: ")

\* C3, amended: the invalid-mode error is produced exactly when the value of
\* mode, None when mode is absent, is not "workflow", and reports that value;
\* an app section that lacks mode yields, for that field, the missing-field
\* error and then the invalid-mode error reporting 'None'.
C3_WheneverNotWorkflow ==
    AppChecked =>
        /\ InvalidModeErrors =
              IF IsStr(Get(AppOf, "mode"), "workflow") THEN <<>>
              ELSE <<"Invalid app mode: expected 'workflow', got '"
                     \o PyStr(Get(AppOf, "mode")) \o "'">>
        /\ ~HasKey(AppOf, "mode") =>
              /\ Len(ErrorsOf({2}, -1)) >= 2
              /\ SubSeq(ErrorsOf({2}, -1), Len(ErrorsOf({2}, -1)) - 1, Len(ErrorsOf({2}, -1)))
                    = <<"Missing required app field: mode",
                        "Invalid app mode: expected 'workflow', got 'None'">>
\* A returned report for an app section that has a name and no mode
C3_Witness ==
    /\ Done /\ AppChecked
    /\ HasKey(AppOf, "name") /\ ~HasKey(AppOf, "mode")

\* The document has a graph with a list of nodes none of which has the type
NoNodeOfType(d, type) ==
    /\ HasGraph(d) /\ HasKey(GraphOf(d), "nodes")
    /\ Lookup(GraphOf(d), "nodes").k = "seq"
    /\ \A n \in DOMAIN Lookup(GraphOf(d), "nodes").v :
          ~IsStr(TypeOf(Lookup(GraphOf(d), "nodes").v[n]), type)

\* C4, as claimed: every report for a document whose graph has zero nodes of
\* type start holds exactly one "must have at least one 'start' node" error,
\* whatever other defects the document has; the same for end.
C4_AlwaysOneError ==
    Done =>
        /\ NoNodeOfType(Tree, "start") => Count(ret[1].e, MsgNoStart) = 1
        /\ NoNodeOfType(Tree, "end") => Count(ret[1].e, MsgNoEnd) = 1

\* C4, amended: every report for a document whose graph has both nodes and
\* edges and zero nodes of type start holds exactly one such error, whatever
\* the number of nodes and the other defects; the same for end.  (A graph
\* without nodes or without edges yields none.)
C4_OneErrorWhenGraphComplete ==
    Done =>
        /\ GraphComplete(Tree) /\ NoNodeOfType(Tree, "start") =>
              Count(ret[1].e, MsgNoStart) = 1
        /\ GraphComplete(Tree) /\ NoNodeOfType(Tree, "end") =>
              Count(ret[1].e, MsgNoEnd) = 1
        /\ ~GraphComplete(Tree) =>
              Count(ret[1].e, MsgNoStart) = 0 /\ Count(ret[1].e, MsgNoEnd) = 0
\* A report for a graph of two nodes, neither a start nor an end node, with
\* other errors in it
C4_Witness ==
    /\ Done /\ GraphComplete(Tree)
    /\ NoNodeOfType(Tree, "start") /\ NoNodeOfType(Tree, "end")
    /\ Len(NodesOf(Tree)) >= 2
    /\ Len(ret[1].e) > 2

\* The node loop of the call has run to its end
NodesChecked == Loaded /\ frame[1].pc \in {"edges", "done"} /\ GraphComplete(Tree)
\* What a node yields when it is the only node of a graph
Alone(node) == ValidateNode(0, node, {}, FALSE, FALSE)
\* Exactly the nodes m and n, m before n, have the id of node n
OnlyPair(d, m, n) ==
    /\ m < n
    /\ Truthy(IdOf(NodesOf(d)[n]))
    /\ {j \in DOMAIN NodesOf(d) : IdOf(NodesOf(d)[j]) = IdOf(NodesOf(d)[n])} = {m, n}
DuplicateMsg(id) == "Duplicate node ID: " \o PyStr(id)
\* The positions of the Duplicate errors the nodes with this id appended
DuplicateErrors(d, id) ==
    {j \in DOMAIN errors[1] :
        /\ errFrom[1][j].ph = 4
        /\ IdOf(NodesOf(d)[errFrom[1][j].i + 1]) = id
        /\ HasPrefix(errors[1][j], "Duplicate node ID")}

\* C5: when exactly two nodes share an id, the nodes with that id append
\* exactly one "Duplicate node ID" error, the second node's first entry; the
\* id is in the known-id set the edges are resolved against; and each of the
\* two nodes appends the errors and warnings of its data, type and per-type
\* checks as it does when it is no duplicate.
C5_DuplicateStillChecked ==
    NodesChecked =>
        \A m, n \in DOMAIN NodesOf(Tree) :
            OnlyPair(Tree, m, n) =>
                LET id == IdOf(NodesOf(Tree)[n]) IN
                /\ Cardinality(DuplicateErrors(Tree, id)) = 1
                /\ id \in frame[1].node_ids
                /\ ErrorsOf({4}, m - 1) = Alone(NodesOf(Tree)[m]).e
                /\ WarningsOf({4}, m - 1) = Alone(NodesOf(Tree)[m]).w
                /\ ErrorsOf({4}, n - 1) = <<DuplicateMsg(id)>> \o Alone(NodesOf(Tree)[n]).e
                /\ WarningsOf({4}, n - 1) = Alone(NodesOf(Tree)[n]).w
\* A report for two nodes with one id, the second of which has per-type
\* errors of its own and the first a warning
C5_Witness ==
    /\ Done /\ NodesChecked
    /\ \E m, n \in DOMAIN NodesOf(Tree) :
          /\ OnlyPair(Tree, m, n)
          /\ Len(Alone(NodesOf(Tree)[n]).e) >= 2
          /\ Alone(NodesOf(Tree)[m]).w # <<>>

\* The edge loop of the call has run to its end and the call returned
EdgesChecked == Done /\ GraphComplete(Tree)
DanglingMsg(role, id) == "Edge references non-existent " \o role \o " node: " \o PyStr(id)
\* The endpoint is present in the edge (and is not null)
Present(edge, role) == HasKey(edge, role) /\ Lookup(edge, role) # Null
\* The ids the nodes of the document carry, empty ones included
CarriedIds(d) ==
    {IdOf(NodesOf(d)[n]) : n \in {m \in DOMAIN NodesOf(d) : HasKey(NodesOf(d)[m], "id")}}

\* C6, as claimed: an endpoint that is present and is not the id of any
\* declared node gets an error naming it; an edge whose two endpoints are
\* ids of declared nodes contributes no error.
C6_PresentEndpointNamed ==
    EdgesChecked =>
        \A n \in DOMAIN EdgesOf(Tree) :
            LET edge == EdgesOf(Tree)[n] IN
            /\ \A role \in {"source", "target"} :
                  Present(edge, role) /\ Lookup(edge, role) \notin CarriedIds(Tree) =>
                      Count(ErrorsOf({6}, n - 1), DanglingMsg(role, Lookup(edge, role))) = 1
            /\ (\A role \in {"source", "target"} :
                    Present(edge, role) /\ Lookup(edge, role) \in CarriedIds(Tree)) =>
                  ErrorsOf({6}, n - 1) = <<>>

\* The errors the endpoint of edge n owes, by the document alone
EndpointErrors(d, n, role) ==
    LET value == Get(EdgesOf(d)[n], role) IN
    IF ~Truthy(value)
    THEN <<"Edge at index " \o ToString(n - 1) \o " missing '" \o role \o "'">>
    ELSE IF value \notin DeclaredIds(d) THEN <<DanglingMsg(role, value)>>
    ELSE <<>>

\* C6, amended: an endpoint that is non-empty (not null, "" or 0) and is not
\* the id of any declared node gets an error naming it; an endpoint that is
\* absent or empty gets the error "Edge at index <i> missing '<role>'"; an
\* edge whose two endpoints are non-empty ids of declared nodes contributes
\* no error.  The two endpoints are checked independently, source first, so
\* an edge contributes between 0 and 2 errors.
C6_NonEmptyEndpointNamed ==
    EdgesChecked =>
        \A n \in DOMAIN EdgesOf(Tree) :
            /\ ErrorsOf({6}, n - 1) =
                  EndpointErrors(Tree, n, "source") \o EndpointErrors(Tree, n, "target")
            /\ Len(ErrorsOf({6}, n - 1)) <= 2
\* A report with an edge that has two dangling endpoints and an edge whose
\* endpoints both resolve
C6_Witness ==
    /\ EdgesChecked
    /\ \E n, m \in DOMAIN EdgesOf(Tree) :
          /\ Len(ErrorsOf({6}, n - 1)) = 2
          /\ \A j \in 1..2 : HasPrefix(ErrorsOf({6}, n - 1)[j], "Edge references")
          /\ ErrorsOf({6}, m - 1) = <<>>

\* The first structural prerequisite the workflow section lacks, as the
\* error that names it (<<>> when none is absent)
AbsentPrerequisite(workflow) ==
    IF ~In("graph", workflow) THEN <<"Missing required workflow field: graph">>
    ELSE IF ~In("nodes", Lookup(workflow, "graph")) THEN <<"Missing 'nodes' in graph">>
    ELSE IF ~In("edges", Lookup(workflow, "graph")) THEN <<"Missing 'edges' in graph">>
    ELSE <<>>

\* C7: when the workflow section lacks a structural prerequisite, the
\* workflow check appends exactly one error, for the first absent
\* prerequisite, and nothing else: no node error or warning, no missing
\* start/end error, no edge error.
C7_StopsAtFirstAbsent ==
    (Done /\ HasKey(Tree, "workflow")
          /\ AbsentPrerequisite(Lookup(Tree, "workflow")) # <<>>) =>
            /\ ErrorsOf({3, 4, 5, 6}, -1) = AbsentPrerequisite(Lookup(Tree, "workflow"))
            /\ Len(ErrorsOf({3, 4, 5, 6}, -1)) = 1
            /\ WarningsOf({3, 4, 5, 6}, -1) = <<>>
            /\ warnings[1] = <<>>
            /\ \A j \in DOMAIN ret[1].e :
                  /\ ret[1].e[j] \notin {MsgNoStart, MsgNoEnd}
                  /\ ~HasPrefix(ret[1].e[j], "Node ")
                  /\ ~HasPrefix(ret[1].e[j], "Edge ")
\* A report for a graph that has malformed nodes and no edges
C7_Witness ==
    /\ Done /\ HasGraph(Tree)
    /\ HasKey(GraphOf(Tree), "nodes") /\ ~HasKey(GraphOf(Tree), "edges")
    /\ \E n \in DOMAIN NodesOf(Tree) : NodesOf(Tree)[n].k # "map"
    /\ ErrorsOf({3}, -1) = <<"Missing 'edges' in graph">>

\* The place of a check in the order of discovery
NotAfter(a, b) == a.ph < b.ph \/ (a.ph = b.ph /\ a.i <= b.i)
Ordered(from) == \A j \in 1..(Len(from) - 1) : NotAfter(from[j], from[j + 1])

\* C8: errors and warnings are in discovery order: top level, app, workflow
\* prerequisites, nodes by index, missing start/end, edges by index.
C8_DiscoveryOrder ==
    /\ Ordered(errFrom[1]) /\ Ordered(warnFrom[1])
    /\ Len(errFrom[1]) = Len(errors[1]) /\ Len(warnFrom[1]) = Len(warnings[1])
    /\ Done => ret[1].e = errors[1] /\ ret[1].w = warnings[1]
\* A report with errors of the top level, the app section, two nodes, the
\* roles and an edge
C8_Witness ==
    /\ Done
    /\ {errFrom[1][j].ph : j \in DOMAIN errFrom[1]} = {1, 2, 4, 5, 6}
    /\ {errFrom[1][j].i : j \in {n \in DOMAIN errFrom[1] : errFrom[1][n].ph = 4}} = {0, 1}

\* The nodes the loop has been through
Visited ==
    IF frame[1].pc = "nodes" THEN 1..frame[1].i ELSE DOMAIN frame[1].nodes
\* Node n registered the role: it has an id and its data has the type
Registers(node, type) == Truthy(IdOf(node)) /\ IsStr(TypeOf(node), type)

\* C9: a node with a missing or empty id appends exactly the error "Node at
\* index <i> missing 'id'" and no warning, its id is not in the known-id
\* set, and it does not count as the start or end node: the known-id set and
\* the two flags are those of the visited nodes that have an id.
C9_MissingIdSkipped ==
    (Loaded /\ frame[1].pc \in {"nodes", "edges", "done"}) =>
        /\ \A n \in Visited :
              ~Truthy(IdOf(frame[1].nodes[n])) =>
                  /\ ErrorsOf({4}, n - 1)
                        = <<"Node at index " \o ToString(n - 1) \o " missing 'id'">>
                  /\ WarningsOf({4}, n - 1) = <<>>
                  /\ IdOf(frame[1].nodes[n]) \notin frame[1].node_ids
        /\ frame[1].node_ids
              = {IdOf(frame[1].nodes[n]) : n \in {m \in Visited : Truthy(IdOf(frame[1].nodes[m]))}}
        /\ frame[1].has_start = \E n \in Visited : Registers(frame[1].nodes[n], "start")
        /\ frame[1].has_end = \E n \in Visited : Registers(frame[1].nodes[n], "end")
\* A report for a graph whose only start node has no id and whose only end
\* node has an empty id: both role errors are in it
C9_Witness ==
    /\ Done /\ Len(frame[1].nodes) = 2
    /\ \E n \in DOMAIN frame[1].nodes :
          ~HasKey(frame[1].nodes[n], "id") /\ IsStr(TypeOf(frame[1].nodes[n]), "start")
    /\ \E n \in DOMAIN frame[1].nodes :
          IsStr(IdOf(frame[1].nodes[n]), "") /\ IsStr(TypeOf(frame[1].nodes[n]), "end")
    /\ Count(ret[1].e, MsgNoStart) = 1 /\ Count(ret[1].e, MsgNoEnd) = 1

\* C10: with one instance per call, every interleaving of two concurrent
\* calls ends each call with the result it has when run alone.
C10_IsolatedWhenSeparate ==
    inst[1] # inst[2] =>
        \A t \in Threads :
            frame[t].pc \in {"done", "raised"} => ret[t] = Validate(frame[t].file)
\* On one shared instance: two concurrent calls on different files have both
\* returned, and one returned a report that is not its run-alone report
C10_SharedLeak ==
    /\ inst[1] = inst[2]
    /\ frame[1].pc = "done" /\ frame[2].pc = "done"
    /\ frame[1].file # frame[2].file
    /\ ret[1] # Validate(frame[1].file)
====
